---- MODULE Spec2Model ----
(***************************************************************************)
(* Model of the two source files of the repository:                        *)
(*   sdk/typescript/packages/mix-fetch-node/rollup-worker.config.mjs       *)
(*     - the bundler configuration and its onwarn handler;                 *)
(*   nym-connect/src/pages/menu/index.tsx                                  *)
(*     - the Menu component rendered from menuSchema.                      *)
(* Strings that the code builds (the console line) are sequences of        *)
(* one-character strings, so that the template literal is a concatenation. *)
(***************************************************************************)
EXTENDS Integers, Sequences, FiniteSets, TLC

\* ---------------------------------------------------------------- bounds
MaxWarnings == 3
MaxMsgLen == 1
MaxRenders == 2
MaxClicks == 2

\* ------------------------------------------------- rollup-worker.config.mjs
\* characters a warning message is made of
MsgChars == {"a", "("}

RECURSIVE SeqsUpTo(_, _)
SeqsUpTo(S, n) ==
  IF n = 0 THEN {<<>>}
  ELSE LET shorter == SeqsUpTo(S, n - 1)
       IN shorter \cup {Append(s, c) : s \in {t \in shorter : Len(t) = n - 1}, c \in S}

Messages == SeqsUpTo(MsgChars, MaxMsgLen)

\* warning.code is optional in a rollup warning: NoCode stands for undefined.
\* The lower-case code is a different string for the strict comparison !==.
NoCode == "undefined"
Codes == {"CIRCULAR_DEPENDENCY", "circular_dependency", "UNRESOLVED_IMPORT", NoCode}

Warnings == [code : Codes, message : Messages]

\* the template literal `(!) ${warning.message}`
ErrorLine(message) == <<"(", "!", ")", " ">> \o message

\* onwarn without the filter on the code: every warning is printed
onwarnUnfiltered(warning) ==
  [lines |-> <<ErrorLine(warning.message)>>, threw |-> FALSE]

\* function onwarn(warning): the lines it passes to console.error, and
\* whether it throws (the body has no throw and calls console.error only)
onwarn(warning) ==
  IF warning.code # "CIRCULAR_DEPENDENCY"
    THEN [lines |-> <<ErrorLine(warning.message)>>, threw |-> FALSE]
    ELSE [lines |-> <<>>, threw |-> FALSE]

\* the exported configuration: the handler it registers and its plugins
config ==
  [input   |-> "src/worker/index.ts",
   output  |-> [dir |-> "dist/cjs", format |-> "cjs"],
   onwarn  |-> "onwarn",
   plugins |-> <<"resolve", "commonjs", "modify", "wasm", "typescript">>]

\* ------------------------------------------------------- menu/index.tsx
menuSchema ==
  << [title |-> "Supported apps", icon |-> "Apps", path |-> "apps"],
     [title |-> "How to connect guide", icon |-> "HelpOutline", path |-> "guide"] >>

\* one <Link component={RouterLink} to={item.path}> ... </Link> element
LinkElement(item) ==
  [type |-> "Link", to |-> item.path, icon |-> item.icon, text |-> item.title]

\* Menu whose links target the title instead of the path
MenuToTitle ==
  [type     |-> "Stack",
   list     |-> [i \in 1..Len(menuSchema) |->
                   [type |-> "Link", to |-> menuSchema[i].title,
                    icon |-> menuSchema[i].icon, text |-> menuSchema[i].title]],
   trailing |-> <<"AppVersion">>]

\* export const Menu = () => ...: the element tree one call returns
Menu ==
  [type     |-> "Stack",
   list     |-> [i \in 1..Len(menuSchema) |-> LinkElement(menuSchema[i])],
   trailing |-> <<"AppVersion">>]

\* the tree before the component was rendered for the first time
Unmounted == [type |-> "none", list |-> <<>>, trailing |-> <<>>]

\* ---------------------------------------------------------------- state
VARIABLES
  received,   \* the warnings the bundler has passed to onwarn, in order
  console,    \* the lines written with console.error, in order
  aborted,    \* TRUE once a call of onwarn has thrown
  dom,        \* the element tree of the last render of Menu
  renders,    \* how many times Menu has been rendered
  visited     \* the targets the router was sent to by clicks, in order

vars == <<received, console, aborted, dom, renders, visited>>

Init ==
  /\ received = <<>>
  /\ console = <<>>
  /\ aborted = FALSE
  /\ dom = Unmounted
  /\ renders = 0
  /\ visited = <<>>

\* the bundler reports a warning through config.onwarn
Warn(w) ==
  /\ config.onwarn = "onwarn"
  /\ ~aborted
  /\ Len(received) < MaxWarnings
  /\ LET r == onwarn(w)
     IN /\ console' = console \o r.lines
        /\ aborted' = r.threw
  /\ received' = Append(received, w)
  /\ UNCHANGED <<dom, renders, visited>>

\* React calls Menu() and commits the tree it returns
Render ==
  /\ renders < MaxRenders
  /\ dom' = Menu
  /\ renders' = renders + 1
  /\ UNCHANGED <<received, console, aborted, visited>>

\* the user clicks the i-th link of the rendered list: RouterLink navigates
\* to the link's `to`
Click(i) ==
  /\ i \in DOMAIN dom.list
  /\ Len(visited) < MaxClicks
  /\ visited' = Append(visited, dom.list[i].to)
  /\ UNCHANGED <<received, console, aborted, dom, renders>>

Next ==
  \/ \E w \in Warnings : Warn(w)
  \/ Render
  \/ \E i \in 1..Len(menuSchema) : Click(i)

Spec == Init /\ [][Next]_vars

\* ------------------------------------------------------------- properties
\* the warnings of a log that are not circular-dependency warnings, in order
Reported(log) == SelectSeq(log, LAMBDA w : ~(w.code = "CIRCULAR_DEPENDENCY"))

\* C9: for any sequence of warnings, the console holds exactly one line
\* "(!) <message>" per warning whose code is not CIRCULAR_DEPENDENCY, in the
\* order received, nothing for a CIRCULAR_DEPENDENCY warning, and the
\* handler has never thrown.
OnwarnReportsAllButCircular ==
  /\ aborted = FALSE
  /\ Len(console) = Len(Reported(received))
  /\ \A k \in 1..Len(console) :
       /\ SubSeq(console[k], 1, 4) = <<"(", "!", ")", " ">>
       /\ SubSeq(console[k], 5, Len(console[k])) = Reported(received)[k].message

\* a log with a circular warning between two reported ones
OnwarnWitness ==
  /\ Len(received) = 3
  /\ received[1].code = "UNRESOLVED_IMPORT"
  /\ received[2].code = "CIRCULAR_DEPENDENCY"
  /\ received[3].code = NoCode
  /\ received[1].message # received[3].message
  /\ Len(console) = 2

\* C10: once rendered, the tree has exactly one link per menuSchema entry,
\* in schema order ("Supported apps" -> "apps", then "How to connect guide"
\* -> "guide"), each with its own path and title, followed by AppVersion;
\* renders and clicks never change it, and a click goes to a schema path.
MenuIsStaticList ==
  /\ renders > 0 =>
       /\ Len(dom.list) = 2
       /\ dom.list[1].to = "apps" /\ dom.list[1].text = "Supported apps"
       /\ dom.list[2].to = "guide" /\ dom.list[2].text = "How to connect guide"
       /\ \A i \in 1..2 : dom.list[i].type = "Link"
       /\ dom.trailing = <<"AppVersion">>
  /\ renders = 0 => dom.list = <<>>
  /\ \A k \in 1..Len(visited) : visited[k] \in {"apps", "guide"}

\* rendered twice, with clicks on both links
MenuWitness ==
  /\ renders = 2
  /\ visited = <<"guide", "apps">>
  /\ Len(dom.list) = 2

====
